---- MODULE Spec2Model ----
(***************************************************************************)
(* Model of the terminal text editor in src/src/main.rs: the Kiro state    *)
(* (buffer, cursor, row_offset, path), Kiro::open, the edit and movement   *)
(* operations, Kiro::scroll, Kiro::draw, Kiro::save and the event loop of  *)
(* main.  Spec is the loop with the editing and cursor keys, SpecSave the  *)
(* loop with typing and Ctrl-s, SpecFiles opening and saving of any file.  *)
(*                                                                         *)
(* Vec indices are 0-based as in the source; a Vec is a TLA+ sequence, so   *)
(* element i of the source is element i+1 of the sequence.                 *)
(* Characters are one-element tokens: "a", "b" printable, "SP" a space,     *)
(* "LF" '\n', "CR" '\r', "TAB" '\t'.                                        *)
(***************************************************************************)
EXTENDS Integers, Sequences, FiniteSets, TLC

\* ---- bounds of the model ------------------------------------------------
\* Largest document the keyboard may grow: sum over lines of (length + 1).
MaxSize == 4
\* Largest terminal height terminal_size() reports.
MaxRows == 2
\* Longest file content open() is run on.
MaxFile == 3
\* Largest terminal width terminal_size() reports.
MaxCols == 2
\* Largest edited document Ctrl-s is pressed on (same measure as MaxSize).
MaxSave == 2

\* ---- alphabets ----------------------------------------------------------
Printable == {"a", "b"}
Control == {"LF", "CR", "TAB"}
Whitespace == {"SP", "LF", "CR", "TAB"}
\* Characters termion delivers as Key::Char(c).
KeyChars == Printable \cup {"LF", "TAB"}
\* Characters a file on disk may hold.
FileChars == {"a", "SP", "CR", "LF"}
\* The command-line path and the state of the file system at that path.
FilePath == "file"
\* What fs::read_to_string finds at the path: a readable file with some
\* content, or nothing readable.
Missing == [readable |-> FALSE, content |-> <<>>]
Files ==
  {[readable |-> TRUE, content |-> s] : s \in UNION {[1..n -> FileChars] : n \in 0..MaxFile}}
    \cup {Missing}
\* The files an editing session starts from: none, an empty one, one with text.
StartFiles ==
  {Missing, [readable |-> TRUE, content |-> <<>>], [readable |-> TRUE, content |-> <<"a">>]}

VARIABLES
  kiro,     \* the Kiro struct: buffer, cursor, row_offset, path
  disk,     \* what fs::read_to_string finds at the path
  rows,     \* terminal height of the latest terminal_size() call
  cols,     \* terminal width of the latest terminal_size() call
  screen,   \* what the latest draw() left on the terminal: the cursor position
  pc,       \* main: "loop" in the event loop, "exited" after return, "panicked"
  lastEvt,  \* the event the latest turn of the loop matched on
  prev      \* the Kiro struct as it was when that event arrived

vars == <<kiro, disk, rows, cols, screen, pc, lastEvt, prev>>

\* ---- std helpers --------------------------------------------------------
min(a, b) == IF a <= b THEN a ELSE b
max(a, b) == IF a >= b THEN a ELSE b

\* char::is_control
is_control(c) == c \in Control

\* Vec::insert(index, x): shifts everything from index on to the right.
VecInsert(v, index, x) == SubSeq(v, 1, index) \o <<x>> \o SubSeq(v, index + 1, Len(v))
\* The part of v kept by drain(at..) / split_off(at), and the part returned.
VecKeep(v, at) == SubSeq(v, 1, at)
VecRest(v, at) == SubSeq(v, at + 1, Len(v))
\* Vec::pop: removes the last element, nothing on an empty Vec.
VecPop(v) == IF Len(v) = 0 THEN v ELSE SubSeq(v, 1, Len(v) - 1)

\* ---- Kiro ---------------------------------------------------------------
\* impl Default for Kiro
KiroDefault ==
  [buffer |-> << <<>> >>, cursor |-> [row |-> 0, column |-> 0],
   row_offset |-> 0, path |-> "None"]

\* str::lines: split after every '\n', then strip the "\n" or "\r\n".
\* (A bare '\r' left at the end of a line is removed by trim_end below.)
RECURSIVE SplitInclusive(_)
SplitInclusive(s) ==
  IF s = <<>> THEN <<>>
  ELSE IF \E i \in 1..Len(s) : s[i] = "LF"
       THEN LET i == CHOOSE j \in 1..Len(s) :
                       s[j] = "LF" /\ \A m \in 1..(j - 1) : s[m] # "LF"
            IN <<SubSeq(s, 1, i)>> \o SplitInclusive(SubSeq(s, i + 1, Len(s)))
       ELSE <<s>>

StripLineEnding(l) ==
  IF Len(l) > 0 /\ l[Len(l)] = "LF"
  THEN LET m == SubSeq(l, 1, Len(l) - 1)
       IN IF Len(m) > 0 /\ m[Len(m)] = "CR" THEN SubSeq(m, 1, Len(m) - 1) ELSE m
  ELSE l

Lines(s) == LET p == SplitInclusive(s) IN [i \in 1..Len(p) |-> StripLineEnding(p[i])]

\* trim_end that strips spaces only, not every kind of whitespace.
RECURSIVE trim_end_SpacesOnly(_)
trim_end_SpacesOnly(l) ==
  IF Len(l) > 0 /\ l[Len(l)] = "SP"
  THEN trim_end_SpacesOnly(SubSeq(l, 1, Len(l) - 1)) ELSE l

\* str::trim_end
RECURSIVE trim_end(_)
trim_end(l) ==
  IF Len(l) > 0 /\ l[Len(l)] \in Whitespace THEN trim_end(SubSeq(l, 1, Len(l) - 1)) ELSE l

\* open() without the is_empty fallback: an empty file gives no line at all.
OpenBuffer_NoFallback(d) ==
  IF ~d.readable THEN << <<>> >>
  ELSE [i \in 1..Len(Lines(d.content)) |-> trim_end(Lines(d.content)[i])]

\* The buffer open() builds from the result of fs::read_to_string.
OpenBuffer(d) ==
  IF ~d.readable THEN << <<>> >>
  ELSE LET buffer == [i \in 1..Len(Lines(d.content)) |-> trim_end(Lines(d.content)[i])]
       IN IF buffer = <<>> THEN << <<>> >> ELSE buffer

\* Kiro::open
open(k, path, d) ==
  [buffer |-> OpenBuffer(d), cursor |-> [row |-> 0, column |-> 0],
   row_offset |-> 0, path |-> path]

\* scroll that never moves the band up: the min with cursor.row is missing.
scroll_NoMin(k, r) ==
  [k EXCEPT !.row_offset =
     IF k.cursor.row + 1 >= r THEN max(k.row_offset, k.cursor.row + 1 - r)
     ELSE k.row_offset]

\* scroll that lets the cursor sit one row below the last visible row.
scroll_OffByOne(k, r) ==
  LET o == min(k.row_offset, k.cursor.row)
  IN [k EXCEPT !.row_offset =
        IF k.cursor.row + 1 >= r THEN max(o, k.cursor.row - r) ELSE o]

\* Kiro::scroll, with r the height terminal_size() returned.
scroll(k, r) ==
  LET o == min(k.row_offset, k.cursor.row)
  IN [k EXCEPT !.row_offset =
        IF k.cursor.row + 1 >= r THEN max(o, k.cursor.row + 1 - r) ELSE o]

\* ---- Kiro::draw -----------------------------------------------------------
\* `let mut cursor: Option<Cursor> = None`, with the number of times the loop
\* assigned it.
NoCursor == [some |-> FALSE, row |-> 0, column |-> 0, marks |-> 0]

\* The loops of draw with the wrap test `col > cols` in place of
\* `col >= cols`: a screen row takes one character too many.
RECURSIVE DrawLoop_LateWrap(_, _, _, _, _, _, _, _)
DrawLoop_LateWrap(k, rws, cls, i, j, row, col, cur) ==
  IF i >= Len(k.buffer) THEN cur
  ELSE
    LET line == k.buffer[i + 1]
        cur2 == IF k.cursor = [row |-> i, column |-> j]
                THEN [some |-> TRUE, row |-> row, column |-> col, marks |-> cur.marks + 1]
                ELSE cur
    IN IF j < Len(line)
       THEN IF col + 1 > cls
            THEN IF row + 1 >= rws
                 THEN cur2
                 ELSE DrawLoop_LateWrap(k, rws, cls, i, j + 1, row + 1, 0, cur2)
            ELSE DrawLoop_LateWrap(k, rws, cls, i, j + 1, row, col + 1, cur2)
       ELSE IF row + 1 >= rws
            THEN cur2
            ELSE DrawLoop_LateWrap(k, rws, cls, i + 1, 0, row + 1, 0, cur2)

\* The two nested loops of draw from buffer position (i, j) on, with the
\* screen position (row, col) and the cursor recorded so far; the result is
\* the value of `cursor` when the loops end or break.
RECURSIVE DrawLoop(_, _, _, _, _, _, _, _)
DrawLoop(k, rws, cls, i, j, row, col, cur) ==
  IF i >= Len(k.buffer) THEN cur
  ELSE
    LET line == k.buffer[i + 1]
        cur2 == IF k.cursor = [row |-> i, column |-> j]
                THEN [some |-> TRUE, row |-> row, column |-> col, marks |-> cur.marks + 1]
                ELSE cur
    IN IF j < Len(line)
       THEN \* a character is there: written, then the column advances
            IF col + 1 >= cls
            THEN IF row + 1 >= rws
                 THEN cur2
                 ELSE DrawLoop(k, rws, cls, i, j + 1, row + 1, 0, cur2)
            ELSE DrawLoop(k, rws, cls, i, j + 1, row, col + 1, cur2)
       ELSE \* j = len: the inner loop ends, the line is closed
            IF row + 1 >= rws
            THEN cur2
            ELSE DrawLoop(k, rws, cls, i + 1, 0, row + 1, 0, cur2)

\* draw that starts at the first line of the buffer, whatever row_offset is.
draw_FromTop(k, rws, cls) == DrawLoop(k, rws, cls, 0, 0, 0, 0, NoCursor)

\* Kiro::draw on a terminal of rws rows and cls columns.
draw(k, rws, cls) == DrawLoop(k, rws, cls, k.row_offset, 0, 0, 0, NoCursor)

\* Kiro::cursor_up
cursor_up(k) ==
  IF k.cursor.row > 0
  THEN [k EXCEPT !.cursor =
          [row |-> k.cursor.row - 1,
           column |-> min(Len(k.buffer[k.cursor.row]), k.cursor.column)]]
  ELSE k

\* cursor_down that keeps the column, however short the new line is.
cursor_down_NoClamp(k) ==
  IF k.cursor.row + 1 < Len(k.buffer)
  THEN [k EXCEPT !.cursor.row = k.cursor.row + 1]
  ELSE k

\* Kiro::cursor_down
cursor_down(k) ==
  IF k.cursor.row + 1 < Len(k.buffer)
  THEN [k EXCEPT !.cursor =
          [row |-> k.cursor.row + 1,
           column |-> min(k.cursor.column, Len(k.buffer[k.cursor.row + 2]))]]
  ELSE k

\* cursor_left that steps left at every column, column 0 included.
cursor_left_NoGuard(k) ==
  [k EXCEPT !.cursor.column = k.cursor.column - 1]

\* Kiro::cursor_left
cursor_left(k) ==
  IF k.cursor.column > 1
  THEN [k EXCEPT !.cursor.column = k.cursor.column - 1]
  ELSE k

\* cursor_right without the clamp to the line length.
cursor_right_NoClamp(k) ==
  [k EXCEPT !.cursor.column = k.cursor.column + 1]

\* Kiro::cursor_right
cursor_right(k) ==
  [k EXCEPT !.cursor.column = min(k.cursor.column + 1, Len(k.buffer[k.cursor.row + 1]))]

\* insert without the is_control test: every character but '\n' is stored.
insert_ControlStored(k, c) ==
  IF c = "LF"
  THEN LET line == k.buffer[k.cursor.row + 1]
           rest == VecRest(line, k.cursor.column)
           cut == [k.buffer EXCEPT ![k.cursor.row + 1] = VecKeep(line, k.cursor.column)]
       IN [k EXCEPT !.buffer = VecInsert(cut, k.cursor.row + 1, rest),
                    !.cursor = [row |-> k.cursor.row + 1, column |-> 0]]
  ELSE cursor_right(
         [k EXCEPT !.buffer[k.cursor.row + 1] =
            VecInsert(k.buffer[k.cursor.row + 1], k.cursor.column, c)])

\* insert that puts the character in place but does not call cursor_right.
insert_CursorKept(k, c) ==
  IF c = "LF"
  THEN LET line == k.buffer[k.cursor.row + 1]
           rest == VecRest(line, k.cursor.column)
           cut == [k.buffer EXCEPT ![k.cursor.row + 1] = VecKeep(line, k.cursor.column)]
       IN [k EXCEPT !.buffer = VecInsert(cut, k.cursor.row + 1, rest),
                    !.cursor = [row |-> k.cursor.row + 1, column |-> 0]]
  ELSE IF ~is_control(c)
  THEN [k EXCEPT !.buffer[k.cursor.row + 1] =
          VecInsert(k.buffer[k.cursor.row + 1], k.cursor.column, c)]
  ELSE k

\* insert that puts the rest of a split line before the row, not after it.
insert_RestAbove(k, c) ==
  IF c = "LF"
  THEN LET line == k.buffer[k.cursor.row + 1]
           rest == VecRest(line, k.cursor.column)
           cut == [k.buffer EXCEPT ![k.cursor.row + 1] = VecKeep(line, k.cursor.column)]
       IN [k EXCEPT !.buffer = VecInsert(cut, k.cursor.row, rest),
                    !.cursor = [row |-> k.cursor.row + 1, column |-> 0]]
  ELSE IF ~is_control(c)
  THEN cursor_right(
         [k EXCEPT !.buffer[k.cursor.row + 1] =
            VecInsert(k.buffer[k.cursor.row + 1], k.cursor.column, c)])
  ELSE k

\* Kiro::insert
insert(k, c) ==
  IF c = "LF"
  THEN LET line == k.buffer[k.cursor.row + 1]
           rest == VecRest(line, k.cursor.column)
           cut == [k.buffer EXCEPT ![k.cursor.row + 1] = VecKeep(line, k.cursor.column)]
       IN [k EXCEPT !.buffer = VecInsert(cut, k.cursor.row + 1, rest),
                    !.cursor = [row |-> k.cursor.row + 1, column |-> 0]]
  ELSE IF ~is_control(c)
  THEN cursor_right(
         [k EXCEPT !.buffer[k.cursor.row + 1] =
            VecInsert(k.buffer[k.cursor.row + 1], k.cursor.column, c)])
  ELSE k

\* delete that removes the character but leaves the cursor column alone.
delete_ColumnKept(k) ==
  IF k.cursor.column > 0
  THEN LET line == k.buffer[k.cursor.row + 1]
           later == VecRest(line, k.cursor.column)
       IN [k EXCEPT !.buffer[k.cursor.row + 1] =
                      VecPop(VecKeep(line, k.cursor.column)) \o later]
  ELSE IF k.cursor.row > 0
  THEN LET later == VecRest(k.buffer, k.cursor.row)
           head == VecKeep(k.buffer, k.cursor.row)
           popped == [head EXCEPT ![k.cursor.row] = VecPop(head[k.cursor.row])]
           buffer == popped \o later
       IN [k EXCEPT !.buffer = buffer,
                    !.cursor = [row |-> k.cursor.row - 1,
                                column |-> Len(buffer[k.cursor.row])]]
  ELSE k

\* Kiro::delete
delete(k) ==
  IF k.cursor.column > 0
  THEN LET line == k.buffer[k.cursor.row + 1]
           later == VecRest(line, k.cursor.column)
       IN [k EXCEPT !.buffer[k.cursor.row + 1] =
                      VecPop(VecKeep(line, k.cursor.column)) \o later,
                    !.cursor.column = k.cursor.column - 1]
  ELSE IF k.cursor.row > 0
  THEN LET later == VecRest(k.buffer, k.cursor.row)
           head == VecKeep(k.buffer, k.cursor.row)
           popped == [head EXCEPT ![k.cursor.row] = VecPop(head[k.cursor.row])]
           buffer == popped \o later
       IN [k EXCEPT !.buffer = buffer,
                    !.cursor = [row |-> k.cursor.row - 1,
                                column |-> Len(buffer[k.cursor.row])]]
  ELSE k

\* Document size the MaxSize bound is measured in.
RECURSIVE Size(_)
Size(b) == IF b = <<>> THEN 0 ELSE Len(b[1]) + 1 + Size(Tail(b))

\* ---- Kiro::save -----------------------------------------------------------
\* save that puts '\n' between the lines and none after the last.
RECURSIVE Written_NoFinalNewline(_)
Written_NoFinalNewline(b) ==
  IF b = <<>> THEN <<>>
  ELSE IF Len(b) = 1 THEN b[1]
  ELSE b[1] \o <<"LF">> \o Written_NoFinalNewline(Tail(b))

\* What the loops of save write: every character of every line, and a '\n'
\* after each line.
RECURSIVE Written(_)
Written(b) == IF b = <<>> THEN <<>> ELSE b[1] \o <<"LF">> \o Written(Tail(b))

\* How a save can end: the file is created and all writes succeed; or
\* File::create fails; or the file is created (and truncated) and a write
\* fails after n characters, where unwrap() panics.
SaveOutcomes(k) ==
  {[how |-> "ok", n |-> Len(Written(k.buffer))], [how |-> "create_failed", n |-> 0]}
    \cup {[how |-> "write_failed", n |-> n] : n \in 0..(Len(Written(k.buffer)) - 1)}

\* The file after save() of k ended as o, d being the file before.
save(k, d, o) ==
  IF k.path = "None" \/ o.how = "create_failed" THEN d
  ELSE [readable |-> TRUE, content |-> SubSeq(Written(k.buffer), 1, o.n)]

save_panics(k, o) == k.path # "None" /\ o.how = "write_failed"

\* ---- panics: the index and range checks of Vec ---------------------------
\* self.buffer[self.cursor.row] is out of range.
RowOutOfRange(k) == k.cursor.row >= Len(k.buffer)
\* cursor.column is past the end of the current line (drain, split_off and
\* Vec::insert all panic on it).
ColumnOutOfRange(k) == k.cursor.column > Len(k.buffer[k.cursor.row + 1])

cursor_up_panics(k) == k.cursor.row > 0 /\ k.cursor.row - 1 >= Len(k.buffer)
cursor_right_panics(k) == RowOutOfRange(k)
insert_panics(k, c) ==
  (c = "LF" \/ ~is_control(c)) /\ (RowOutOfRange(k) \/ ColumnOutOfRange(k))
delete_panics(k) ==
  IF k.cursor.column > 0 THEN RowOutOfRange(k) \/ ColumnOutOfRange(k)
  ELSE k.cursor.row > Len(k.buffer)

\* ---- the event loop of main ----------------------------------------------
Evt(key, c) == [key |-> key, c |-> c]

\* main before the loop: Kiro::default(), then open(path).
Init ==
  /\ disk \in StartFiles
  /\ kiro = open(KiroDefault, FilePath, disk)
  /\ rows \in 1..MaxRows
  /\ cols \in 1..MaxCols
  /\ screen = draw(kiro, rows, cols)
  /\ pc = "loop"
  /\ lastEvt = Evt("Open", "-")
  /\ prev = KiroDefault

\* A turn that repaints before it scrolls: the screen shows the band of
\* before the scroll.
TurnWith_DrawBeforeScroll(evt, panics, k2, r, d2) ==
  /\ lastEvt' = evt
  /\ prev' = kiro
  /\ rows' = r
  /\ disk' = d2
  /\ UNCHANGED cols
  /\ IF panics
     THEN pc' = "panicked" /\ UNCHANGED <<kiro, screen>>
     ELSE /\ pc' = pc
          /\ kiro' = scroll(k2, r)
          /\ screen' = draw(k2, r, cols)

\* One turn of the loop: the handler ran and gave k2 (or panicked), then
\* scroll() and draw() on a terminal that now has r rows.  The height is
\* read anew at every turn because scroll() keeps its effect in row_offset;
\* the width is read by draw() alone, which keeps nothing, so the width of
\* an earlier turn cannot show in a later one and it is chosen once.
TurnWith(evt, panics, k2, r, d2) ==
  /\ lastEvt' = evt
  /\ prev' = kiro
  /\ rows' = r
  /\ disk' = d2
  /\ UNCHANGED cols
  /\ IF panics
     THEN pc' = "panicked" /\ UNCHANGED <<kiro, screen>>
     ELSE /\ pc' = pc
          /\ kiro' = scroll(k2, r)
          /\ screen' = draw(scroll(k2, r), r, cols)

\* A turn whose handler leaves the file system alone.
Turn(evt, panics, k2, r) == TurnWith(evt, panics, k2, r, disk)

\* Event::Key(Key::Char(c))
KeyChar ==
  \E c \in KeyChars, r \in 1..MaxRows :
    /\ pc = "loop"
    /\ (c = "LF" \/ ~is_control(c)) => Size(kiro.buffer) < MaxSize
    /\ Turn(Evt("Char", c), insert_panics(kiro, c), insert(kiro, c), r)

\* Event::Key(Key::Backspace)
KeyBackspace ==
  \E r \in 1..MaxRows :
    pc = "loop" /\ Turn(Evt("Backspace", "-"), delete_panics(kiro), delete(kiro), r)

\* Event::Key(Key::Up)
KeyUp ==
  \E r \in 1..MaxRows :
    pc = "loop" /\ Turn(Evt("Up", "-"), cursor_up_panics(kiro), cursor_up(kiro), r)

\* Event::Key(Key::Down)
KeyDown ==
  \E r \in 1..MaxRows :
    pc = "loop" /\ Turn(Evt("Down", "-"), FALSE, cursor_down(kiro), r)

\* Event::Key(Key::Left)
KeyLeft ==
  \E r \in 1..MaxRows :
    pc = "loop" /\ Turn(Evt("Left", "-"), FALSE, cursor_left(kiro), r)

\* Event::Key(Key::Right)
KeyRight ==
  \E r \in 1..MaxRows :
    pc = "loop" /\ Turn(Evt("Right", "-"), cursor_right_panics(kiro), cursor_right(kiro), r)

\* Any other event: the `_ => {}` arm.
KeyOther ==
  \E r \in 1..MaxRows :
    pc = "loop" /\ Turn(Evt("Other", "-"), FALSE, kiro, r)

\* A quit that writes the buffer to the file before it returns.
KeyQuit_SavesFirst ==
  /\ pc = "loop"
  /\ pc' = "exited"
  /\ lastEvt' = Evt("Quit", "-")
  /\ prev' = kiro
  /\ disk' = [readable |-> TRUE, content |-> Written(kiro.buffer)]
  /\ UNCHANGED <<kiro, rows, cols, screen>>

\* Event::Key(Key::Ctrl('c')): return, without scroll or draw.
KeyQuit ==
  /\ pc = "loop"
  /\ pc' = "exited"
  /\ lastEvt' = Evt("Quit", "-")
  /\ prev' = kiro
  /\ UNCHANGED <<kiro, disk, rows, cols, screen>>

\* Event::Key(Key::Ctrl('s')).  An edited document is saved only while it is
\* small, to keep the files that can be on disk few.
KeySave ==
  \E r \in 1..MaxRows, o \in SaveOutcomes(kiro) :
    /\ pc = "loop"
    /\ Size(kiro.buffer) <= MaxSave \/ kiro.buffer = OpenBuffer(disk)
    /\ TurnWith(Evt("Save", o.how), save_panics(kiro, o), kiro, r, save(kiro, disk, o))

\* The arms of the match that touch the Kiro struct or end the loop.  The
\* Ctrl('s') arm calls save(), which takes &self: it reads the buffer and
\* writes only to the file system; it is KeySave, part of SpecSave and SpecFiles.
Next ==
  \/ KeyChar
  \/ KeyBackspace
  \/ KeyUp
  \/ KeyDown
  \/ KeyLeft
  \/ KeyRight
  \/ KeyOther
  \/ KeyQuit

Spec == Init /\ [][Next]_vars

\* Typing, deleting, saving and quitting (the cursor keys are left to Spec).
NextSave == KeyChar \/ KeyBackspace \/ KeyOther \/ KeySave \/ KeyQuit

SpecSave == Init /\ [][NextSave]_vars

\* Opening any file, then saving and quitting without an edit.
InitFiles ==
  /\ disk \in Files
  /\ kiro = open(KiroDefault, FilePath, disk)
  /\ rows \in 1..MaxRows
  /\ cols \in 1..MaxCols
  /\ screen = draw(kiro, rows, cols)
  /\ pc = "loop"
  /\ lastEvt = Evt("Open", "-")
  /\ prev = KiroDefault

NextFiles == KeySave \/ KeyQuit

SpecFiles == InitFiles /\ [][NextFiles]_vars

\* ---- properties ----------------------------------------------------------
\* Line i (0-based) of a buffer.
LineOf(b, i) == b[i + 1]

\* C1: after open() and after every insert, newline, backspace, Up, Down,
\* Left or Right the cursor is inside the buffer: 0 <= row < line_count and
\* 0 <= column <= len(line[row]).
C1_CursorInBuffer ==
  /\ 0 <= kiro.cursor.row
  /\ kiro.cursor.row < Len(kiro.buffer)
  /\ 0 <= kiro.cursor.column
  /\ kiro.cursor.column <= Len(LineOf(kiro.buffer, kiro.cursor.row))

\* A vertical move landed on a shorter line and the column was pulled back.
C1_Witness ==
  /\ lastEvt.key \in {"Up", "Down"}
  /\ kiro.cursor.row # prev.cursor.row
  /\ kiro.cursor.column < prev.cursor.column
  /\ kiro.cursor.column = Len(LineOf(kiro.buffer, kiro.cursor.row))

\* C2: the buffer always has at least one line: after open() of a file with
\* lines, of an empty file and of an unreadable file, and after every edit
\* and movement operation.
C2_LineCountAtLeastOne == Len(kiro.buffer) >= 1

\* An empty file was opened and a backspace was then handled; the document
\* is the single empty line.
C2_Witness ==
  /\ disk.readable
  /\ disk.content = <<>>
  /\ lastEvt.key = "Backspace"
  /\ kiro.buffer = << <<>> >>

\* The buffer b with line r (r > 0) removed and appended to line r-1.
Joined(b, r) ==
  SubSeq(b, 1, r - 1) \o <<LineOf(b, r - 1) \o LineOf(b, r)>> \o SubSeq(b, r + 2, Len(b))

\* C3: backspace at column 0 of a row > 0 joins the line onto the one above:
\* the line count drops by one, no character is lost, the other lines are
\* unchanged and the cursor lands at (row-1, former length of line row-1).
C3_BackspaceJoinsLines ==
  (lastEvt.key = "Backspace" /\ prev.cursor.column = 0 /\ prev.cursor.row > 0)
    => /\ kiro.buffer = Joined(prev.buffer, prev.cursor.row)
       /\ kiro.cursor = [row |-> prev.cursor.row - 1,
                         column |-> Len(LineOf(prev.buffer, prev.cursor.row - 1))]

\* C4: a newline followed at once by a backspace gives back the buffer and
\* the cursor of before the newline.
C4_NewlineThenBackspaceCancels ==
  [][(lastEvt = Evt("Char", "LF") /\ lastEvt'.key = "Backspace")
       => (kiro'.buffer = prev.buffer /\ kiro'.cursor = prev.cursor)]_vars

\* C5: a printable character followed at once by a backspace gives back the
\* buffer and the cursor of before the character.
C5_InsertThenDeleteCancels ==
  [][(lastEvt.key = "Char" /\ lastEvt.c \in Printable /\ lastEvt'.key = "Backspace")
       => (kiro'.buffer = prev.buffer /\ kiro'.cursor = prev.cursor)]_vars

\* A backspace was handled in a state that inserting some printable
\* character into the present document produces: the document went
\* through that insert and came back.
C5_Witness ==
  /\ lastEvt.key = "Backspace"
  /\ prev.buffer # kiro.buffer
  /\ \E c \in Printable :
       /\ prev.buffer = insert(kiro, c).buffer
       /\ prev.cursor = insert(kiro, c).cursor

\* C6: Left with column > 0, column 1 included, moves one column left and
\* changes neither the row nor the buffer.
C6_LeftMovesOneColumn ==
  (lastEvt.key = "Left" /\ prev.cursor.column > 0)
    => /\ kiro.cursor = [row |-> prev.cursor.row, column |-> prev.cursor.column - 1]
       /\ kiro.buffer = prev.buffer

\* The last event left buffer and cursor as they were and the loop goes on.
Untouched == kiro.buffer = prev.buffer /\ kiro.cursor = prev.cursor /\ pc = "loop"
LastRow(k) == Len(k.buffer) - 1
LenOfRow(k) == Len(LineOf(k.buffer, k.cursor.row))

\* C7: Left at column 0, Up at row 0, Right at the end of the line, Down at
\* the last row and backspace at (0,0) change neither buffer nor cursor and
\* raise no error.
C7_BoundaryNoOps ==
  /\ (lastEvt.key = "Left" /\ prev.cursor.column = 0) => Untouched
  /\ (lastEvt.key = "Up" /\ prev.cursor.row = 0) => Untouched
  /\ (lastEvt.key = "Right" /\ prev.cursor.column = LenOfRow(prev)) => Untouched
  /\ (lastEvt.key = "Down" /\ prev.cursor.row = LastRow(prev)) => Untouched
  /\ (lastEvt.key = "Backspace" /\ prev.cursor.row = 0 /\ prev.cursor.column = 0)
       => Untouched

\* Left arrived with the cursor at column 0 of a line that has text, below
\* the first row: there was room to wrap and a character to step over.
C7_Witness ==
  /\ lastEvt.key = "Left"
  /\ prev.cursor.column = 0
  /\ prev.cursor.row > 0
  /\ LenOfRow(prev) > 0
  /\ Untouched

\* C8: a printable character c typed at (row, column) gives line[row] =
\* old[0..column) ++ [c] ++ old[column..], leaves the other lines and the
\* line count as they were and moves the cursor to (row, column+1).
C8_InsertChar ==
  (lastEvt.key = "Char" /\ lastEvt.c \in Printable) =>
    LET r == prev.cursor.row
        col == prev.cursor.column
        old == LineOf(prev.buffer, r)
        new == LineOf(kiro.buffer, r)
    IN /\ Len(kiro.buffer) = Len(prev.buffer)
       /\ \A i \in 0..(Len(prev.buffer) - 1) :
            i # r => LineOf(kiro.buffer, i) = LineOf(prev.buffer, i)
       /\ Len(new) = Len(old) + 1
       /\ \A j \in 1..col : new[j] = old[j]
       /\ new[col + 1] = lastEvt.c
       /\ \A j \in (col + 1)..Len(old) : new[j + 1] = old[j]
       /\ kiro.cursor = [row |-> r, column |-> col + 1]

\* A character was typed in front of another one, in a line below the
\* first: a character shifted right and another line was there to keep.
C8_Witness ==
  /\ lastEvt.key = "Char"
  /\ lastEvt.c \in Printable
  /\ prev.cursor.row > 0
  /\ prev.cursor.column < LenOfRow(prev)
  /\ LineOf(kiro.buffer, kiro.cursor.row)[kiro.cursor.column + 1] # lastEvt.c

\* C9: a newline typed at (row, column) leaves old[0..column) in line row,
\* puts old[column..] in a new line right after it, keeps the other lines in
\* their order, raises the line count by one and moves the cursor to
\* (row+1, 0).
C9_InsertNewline ==
  (lastEvt = Evt("Char", "LF")) =>
    LET r == prev.cursor.row
        col == prev.cursor.column
        old == LineOf(prev.buffer, r)
    IN /\ Len(kiro.buffer) = Len(prev.buffer) + 1
       /\ \A i \in 0..(r - 1) : LineOf(kiro.buffer, i) = LineOf(prev.buffer, i)
       /\ LineOf(kiro.buffer, r) = SubSeq(old, 1, col)
       /\ LineOf(kiro.buffer, r + 1) = SubSeq(old, col + 1, Len(old))
       /\ \A i \in (r + 1)..(Len(prev.buffer) - 1) :
            LineOf(kiro.buffer, i + 1) = LineOf(prev.buffer, i)
       /\ kiro.cursor = [row |-> r + 1, column |-> 0]

\* A newline cut a line in two non-empty parts.
C9_Witness ==
  /\ lastEvt = Evt("Char", "LF")
  /\ prev.cursor.column > 0
  /\ prev.cursor.column < LenOfRow(prev)
  /\ LineOf(kiro.buffer, kiro.cursor.row) # <<>>
  /\ LineOf(kiro.buffer, kiro.cursor.row - 1) # <<>>

\* C10: at every render, whatever the terminal height rows >= 1, the
\* cursor's row is in the displayed band: row_offset <= row < row_offset + rows.
C10_CursorRowInBand ==
  pc = "loop" =>
    /\ rows >= 1
    /\ kiro.row_offset <= kiro.cursor.row
    /\ kiro.cursor.row < kiro.row_offset + rows

\* The cursor went below the band and scroll moved the band down to it,
\* with a row of the document still above the band.
C10_Witness ==
  /\ pc = "loop"
  /\ lastEvt.key \in {"Char", "Down"}
  /\ kiro.cursor.row > prev.cursor.row
  /\ kiro.row_offset > prev.row_offset
  /\ kiro.row_offset > 0
  /\ kiro.cursor.row = kiro.row_offset + rows - 1

\* The latest turn of the loop handled an event and ran scroll().
Scrolled == pc = "loop" /\ lastEvt.key \notin {"Open", "Quit"}

\* Four Down events on a freshly opened document of five empty lines, each
\* followed by scroll() on a terminal of height 2.
RECURSIVE DownAndScroll(_, _, _)
DownAndScroll(k, r, n) ==
  IF n = 0 THEN k ELSE DownAndScroll(scroll(cursor_down(k), r), r, n - 1)
FiveLines == [KiroDefault EXCEPT !.buffer = [i \in 1..5 |-> <<>>]]

\* C11: scroll leaves row_offset alone when the cursor row is in the band
\* [row_offset, row_offset + rows), sets it to cursor.row when the cursor is
\* above the band and to cursor.row + 1 - rows when it is below; with
\* rows = 2 and the cursor moved down to row 4 of 5 lines, row_offset is 3.
C11_ScrollAdjustment ==
  /\ Scrolled =>
       LET o == prev.row_offset
           row == kiro.cursor.row
       IN /\ (o <= row /\ row < o + rows) => kiro.row_offset = o
          /\ row < o => kiro.row_offset = row
          /\ row >= o + rows => kiro.row_offset = row + 1 - rows
  /\ DownAndScroll(FiveLines, 2, 4).cursor.row = 4
  /\ DownAndScroll(FiveLines, 2, 4).row_offset = 3

\* Up took the cursor above the band and the band followed it.
C11_Witness ==
  /\ Scrolled
  /\ lastEvt.key = "Up"
  /\ kiro.cursor.row < prev.row_offset
  /\ kiro.row_offset = kiro.cursor.row
  /\ rows > 1

\* C19: Up with row > 0 goes to row-1, Down with row+1 < line_count goes to
\* row+1, each with column = min(column, length of the new line), and the
\* buffer is unchanged.
C19_VerticalMoveClamps ==
  /\ (lastEvt.key = "Up" /\ prev.cursor.row > 0) =>
       /\ kiro.cursor.row = prev.cursor.row - 1
       /\ kiro.cursor.column =
            min(prev.cursor.column, Len(LineOf(prev.buffer, prev.cursor.row - 1)))
       /\ kiro.buffer = prev.buffer
  /\ (lastEvt.key = "Down" /\ prev.cursor.row + 1 < Len(prev.buffer)) =>
       /\ kiro.cursor.row = prev.cursor.row + 1
       /\ kiro.cursor.column =
            min(prev.cursor.column, Len(LineOf(prev.buffer, prev.cursor.row + 1)))
       /\ kiro.buffer = prev.buffer

\* Down landed on a line shorter than the column the cursor came from.
C19_Witness ==
  /\ lastEvt.key = "Down"
  /\ kiro.cursor.row = prev.cursor.row + 1
  /\ Len(LineOf(kiro.buffer, kiro.cursor.row)) < prev.cursor.column

\* The events main ignores: a control character other than '\n', and
\* everything that falls to the `_` arm.
Ignored(e) == e.key = "Other" \/ (e.key = "Char" /\ e.c \in Control \ {"LF"})

\* C20: an ignored event changes neither buffer nor cursor and leaves the
\* loop running; when the terminal height is the same as at the turn
\* before, row_offset is unchanged too.
C20_IgnoredInputsAreNoOps ==
  [][Ignored(lastEvt') =>
       /\ kiro'.buffer = kiro.buffer
       /\ kiro'.cursor = kiro.cursor
       /\ pc' = "loop"
       /\ (rows' = rows => kiro'.row_offset = kiro.row_offset)]_vars

\* A tab was typed with the cursor inside a scrolled document and nothing
\* moved.
C20_Witness ==
  /\ lastEvt = Evt("Char", "TAB")
  /\ kiro = prev
  /\ kiro.row_offset > 0
  /\ kiro.cursor.column > 0
  /\ pc = "loop"

\* Screen rows the buffer lines from..to-1 take on a terminal cls wide.
RECURSIVE ScreenRows(_, _, _, _)
ScreenRows(b, from, to, cls) ==
  IF from >= to THEN 0
  ELSE (Len(LineOf(b, from)) \div cls) + 1 + ScreenRows(b, from + 1, to, cls)

\* C17: with base the screen rows taken by the lines from row_offset up to
\* the cursor's line, draw records a cursor target iff
\* base + column div cols < rows, the target is then
\* (base + column div cols, column mod cols), and it is recorded at most once.
C17_CursorPaintTarget ==
  (pc # "panicked" /\ kiro.row_offset <= kiro.cursor.row) =>
    LET base == ScreenRows(kiro.buffer, kiro.row_offset, kiro.cursor.row, cols)
        at == base + (kiro.cursor.column \div cols)
    IN /\ screen.some <=> at < rows
       /\ screen.some =>
            /\ screen.row = at
            /\ screen.column = kiro.cursor.column % cols
       /\ screen.marks <= 1

\* The cursor sits in the wrapped part of a line of a scrolled document and
\* is painted there, below the screen row the line starts on.
C17_Witness ==
  /\ pc = "loop"
  /\ screen.some
  /\ kiro.cursor.column >= cols
  /\ kiro.row_offset > 0
  /\ screen.row > kiro.cursor.row - kiro.row_offset

\* C18: in a repaint after scroll, if every line from row_offset to the
\* cursor's line is shorter than the terminal is wide, the cursor is painted,
\* once, on screen row cursor.row - row_offset.
C18_CursorPaintedWithoutWrap ==
  (pc = "loop" /\ \A i \in kiro.row_offset..kiro.cursor.row :
                   Len(LineOf(kiro.buffer, i)) < cols)
    => /\ screen.some
       /\ screen.marks = 1
       /\ screen.row = kiro.cursor.row - kiro.row_offset

\* A repaint of a scrolled document with text, the cursor below the first
\* row of the screen.
C18_Witness ==
  /\ Scrolled
  /\ \A i \in kiro.row_offset..kiro.cursor.row : Len(LineOf(kiro.buffer, i)) < cols
  /\ kiro.row_offset > 0
  /\ kiro.cursor.row > kiro.row_offset
  /\ kiro.cursor.column > 0
  /\ screen.some

\* ---- files ---------------------------------------------------------------
\* Position i of the text s survives the stripping of trailing whitespace:
\* it is a line terminator, or a character that is not whitespace follows
\* (or is) it before the line ends.
Kept(s, i) ==
  \/ s[i] = "LF"
  \/ \E j \in i..Len(s) :
       s[j] \notin Whitespace /\ \A m \in i..j : s[m] # "LF"

\* The text s with the trailing whitespace of each line stripped.
RECURSIVE StripFrom(_, _)
StripFrom(s, i) ==
  IF i > Len(s) THEN <<>>
  ELSE (IF Kept(s, i) THEN <<s[i]>> ELSE <<>>) \o StripFrom(s, i + 1)
StripTrailing(s) == StripFrom(s, 1)

\* The text s with a line terminator added unless it ends in one.
Terminated(s) == IF Len(s) > 0 /\ s[Len(s)] = "LF" THEN s ELSE s \o <<"LF">>

\* A step that saves, with success, the file that was just opened.
SaveAfterOpen ==
  lastEvt.key = "Open" /\ disk.readable /\ lastEvt' = Evt("Save", "ok")

\* C12 as stated: open then save leaves the original content with each
\* line's trailing whitespace stripped, and nothing else changed.
C12_RoundTripStripsOnly ==
  [][SaveAfterOpen => disk'.content = StripTrailing(disk.content)]_vars

\* C12, amended: open then save leaves the original content with a line
\* terminator added at the end when the original does not end in one (an
\* empty file becomes one empty line) and with each line's trailing
\* whitespace stripped.
C12_RoundTripTerminatesAndStrips ==
  [][SaveAfterOpen => disk'.content = StripTrailing(Terminated(disk.content))]_vars

\* A file of two lines was opened and saved at once, and what is on disk
\* now is longer than any file that was opened.
C12_Witness ==
  /\ lastEvt = Evt("Save", "ok")
  /\ prev.buffer = kiro.buffer
  /\ Len(kiro.buffer) = 2
  /\ kiro.buffer[1] # <<>>
  /\ Len(disk.content) > MaxFile

\* C13: open() ends in the loop whatever the file: an unreadable file gives
\* one empty line; in every case the cursor is (0,0), row_offset 0 and the
\* path the one given, and no loaded line ends in whitespace or holds '\n'.
C13_OpenNeverFails ==
  lastEvt.key = "Open" =>
    /\ pc = "loop"
    /\ kiro.path = FilePath
    /\ kiro.cursor = [row |-> 0, column |-> 0]
    /\ kiro.row_offset = 0
    /\ ~disk.readable => kiro.buffer = << <<>> >>
    /\ \A i \in 1..Len(kiro.buffer) :
         LET l == kiro.buffer[i]
         IN /\ \A j \in 1..Len(l) : l[j] # "LF"
            /\ Len(l) > 0 => l[Len(l)] \notin Whitespace

\* A file whose last line has text and ends in a carriage return, with no
\* line terminator, was opened.
C13_Witness ==
  /\ lastEvt.key = "Open"
  /\ disk.readable
  /\ Len(disk.content) >= 2
  /\ disk.content[Len(disk.content)] = "CR"
  /\ disk.content[Len(disk.content) - 1] = "a"

\* C14: a save that fails, at File::create or at a write, leaves the
\* process running with buffer, cursor and path as they were.
C14_FailedSaveNotFatal ==
  (lastEvt.key = "Save" /\ lastEvt.c # "ok") =>
    /\ pc = "loop"
    /\ kiro.buffer = prev.buffer
    /\ kiro.cursor = prev.cursor
    /\ kiro.path = prev.path

\* What the arm of the match for event e makes of k.
Handled(k, e) ==
  CASE e.key = "Char" -> insert(k, e.c)
    [] e.key = "Backspace" -> delete(k)
    [] e.key = "Up" -> cursor_up(k)
    [] e.key = "Down" -> cursor_down(k)
    [] e.key = "Left" -> cursor_left(k)
    [] e.key = "Right" -> cursor_right(k)
    [] OTHER -> k

\* C15: when the loop is ready for the next event, the event before it (if
\* not quit) has had its one operation applied, then one scroll, then one
\* repaint: the Kiro struct is scroll of the handler's result and the screen
\* shows that struct.
C15_OperationScrollRepaint ==
  (pc = "loop" /\ lastEvt.key # "Open") =>
    /\ kiro = scroll(Handled(prev, lastEvt), rows)
    /\ screen = draw(kiro, rows, cols)

\* A newline was typed, scroll moved the band and the repaint shows the
\* cursor in the moved band.
C15_Witness ==
  /\ pc = "loop"
  /\ lastEvt = Evt("Char", "LF")
  /\ kiro.row_offset > prev.row_offset
  /\ screen.some
  /\ screen.row = kiro.cursor.row - kiro.row_offset

\* C16: quit ends the loop at once: the step that handles it changes
\* neither the file, nor the Kiro struct, nor the screen, and no step
\* follows it.
C16_QuitEndsLoop ==
  [][/\ pc # "exited"
     /\ lastEvt'.key = "Quit" =>
          /\ pc' = "exited"
          /\ disk' = disk
          /\ kiro' = kiro
          /\ screen' = screen]_vars

\* The editor has quit after a save and later edits: the file holds what
\* was saved, not the buffer.
C16_Witness ==
  /\ pc = "exited"
  /\ disk \notin StartFiles
  /\ disk.content # Written(kiro.buffer)
  /\ Size(kiro.buffer) > MaxSave

====
